---- MODULE Spec2Model ----
(***************************************************************************)
(* Model of cmd/generate.go of wintun-lib-embedded: the generator that     *)
(* finds the latest Wintun version, downloads its archive, extracts one    *)
(* DLL per architecture, writes one Go source file per architecture and    *)
(* commits, tags and pushes the result when the working tree changed.      *)
(*                                                                         *)
(* Strings are sequences of one-character strings; byte slices are         *)
(* sequences of numbers in 0..255.                                         *)
(***************************************************************************)
EXTENDS Integers, Sequences, FiniteSets, TLC

VARIABLES
    pc,          \* position of main: the stage about to run, or a final state
    wtver,       \* main's wtver: the raw version
    ver,         \* main's ver: the normalized version
    zip,         \* main's zip: the downloaded archive
    bins,        \* main's bins: the result map of unzipBinaries
    generated,   \* keys for which generateFileForArch has returned nil
    hasChanges,  \* result of hasUncommittedChanges: "unset", "true", "false", "error"
    checks,      \* number of calls of hasUncommittedChanges in this run
    gitlog,      \* git commands executed in this run, in order
    trace,       \* stages entered in this run, in order
    err,         \* the error value that ended the run, or NoError
    gets,        \* number of http.Get calls in this run
    written,     \* the files this run has changed: name -> content, NoFile elsewhere
    gitDir,      \* TRUE iff the scratch clone directory .git-wintun exists
    wt,          \* working tree: key -> content of lib_windows_<key>.go
    index,       \* git index (staged content) of the same files
    head,        \* content of the same files in the commit HEAD points to
    tags,        \* local tags: tag name -> tagged tree
    remote,      \* the remote: [branch |-> tree, tags |-> tag name -> tree]
    prev,        \* what the run before this one did
    run          \* number of the current run, from 1

vars == <<pc, wtver, ver, zip, bins, generated, hasChanges, checks, gitlog, trace,
          err, gets, written, gitDir, wt, index, head, tags, remote, prev, run>>

runVars == <<pc, wtver, ver, zip, bins, generated, hasChanges, checks, gitlog, trace,
             err, gets, written>>

repoVars == <<wt, index, head, tags, remote>>

-----------------------------------------------------------------------------
(* Bounds of the model *)

\* longest raw version string drawn from VersionAlphabet
MaxVerLen == 4

\* longest payload of a DLL in an archive
MaxPayloadLen == 2

\* number of re-runs of the pipeline after the first run
MaxReruns == 1

-----------------------------------------------------------------------------
(* Strings *)

RECURSIVE SeqsUpTo(_, _)
SeqsUpTo(S, n) ==
    IF n = 0 THEN {<<>>}
    ELSE LET shorter == SeqsUpTo(S, n - 1)
         IN  shorter \cup {Append(s, c) : s \in {t \in shorter : Len(t) = n - 1}, c \in S}

IsSpace(c) == c \in {" ", "\n", "\t"}

RECURSIVE TrimLeft(_)
TrimLeft(s) ==
    IF s # <<>> /\ IsSpace(Head(s)) THEN TrimLeft(Tail(s)) ELSE s

RECURSIVE TrimRight(_)
TrimRight(s) ==
    IF s # <<>> /\ IsSpace(s[Len(s)]) THEN TrimRight(SubSeq(s, 1, Len(s) - 1)) ELSE s

\* strings.TrimSpace
TrimSpace(s) == TrimRight(TrimLeft(s))

\* index of the first sep in s, 0 if there is none
RECURSIVE IndexFrom(_, _, _)
IndexFrom(s, sep, i) ==
    IF i > Len(s) THEN 0
    ELSE IF s[i] = sep THEN i
    ELSE IndexFrom(s, sep, i + 1)

\* strings.SplitN(s, sep, n) for n > 0: at most n substrings, the last one
\* is the unsplit remainder
RECURSIVE SplitN(_, _, _)
SplitN(s, sep, n) ==
    LET i == IndexFrom(s, sep, 1)
    IN  IF n = 1 \/ i = 0 THEN <<s>>
        ELSE <<SubSeq(s, 1, i - 1)>> \o SplitN(SubSeq(s, i + 1, Len(s)), sep, n - 1)

ReplaceAllBug(s, old, new) == s

\* strings.ReplaceAll(s, old, new) for one-character old and new
ReplaceAll(s, old, new) ==
    [i \in 1..Len(s) |-> IF s[i] = old THEN new ELSE s[i]]

-----------------------------------------------------------------------------
(* Errors: the message of the outermost fmt.Errorf, the architecture key it *)
(* names (or ""), and the kind of the wrapped cause (or "").               *)

NoError == [msg |-> "", arch |-> "", cause |-> ""]

Error(m, a, c) == [msg |-> m, arch |-> a, cause |-> c]

-----------------------------------------------------------------------------
(* normalizeVersion *)

\* the loop "for i := len(split) - 1; i < 3; i++ { split = append(split, "0") }"
RECURSIVE PadSplit(_, _)
PadSplit(split, i) ==
    IF i < 3 THEN PadSplit(Append(split, <<"0">>), i + 1) ELSE split

normalizeVersion(v) ==
    LET trimVer == TrimSpace(v)
        split   == PadSplit(SplitN(trimVer, ".", 3), Len(SplitN(trimVer, ".", 3)) - 1)
    IN  IF trimVer = <<>>
        THEN [val |-> <<>>, err |-> Error("invalid version", "", "")]
        ELSE [val |-> split[1] \o <<".">> \o split[2] \o <<".">>
                        \o ReplaceAll(split[3], ".", "_"),
              err |-> NoError]

-----------------------------------------------------------------------------
(* The architecture mapping and the archive *)

goarchToWintunArch ==
    [k \in {"amd64", "arm", "arm64", "386"} |->
        CASE k = "amd64" -> "amd64"
          [] k = "arm"   -> "arm"
          [] k = "arm64" -> "arm64"
          [] k = "386"   -> "x86"]

Archs == DOMAIN goarchToWintunArch

UpstreamNames == {goarchToWintunArch[k] : k \in Archs}

\* fmt.Sprintf("wintun/bin/%s/wintun.dll", v)
EntryPath(v) == "wintun/bin/" \o v \o "/wintun.dll"

\* fmt.Sprintf("lib_windows_%s.go", arch), joined to generateDir "."
FileName(arch) == "lib_windows_" \o arch \o ".go"

FileNames == {FileName(k) : k \in Archs}

\* A *zip.File: its name, its uncompressed content, and whether opening and
\* reading it work ("ok"), Open fails ("openerr": unsupported method, bad
\* header) or the read fails part-way ("readerr": corrupt data, bad checksum).
ZipFile(name, data, state) == [Name |-> name, data |-> data, state |-> state]

\* the nil *zip.File that a lookup of a missing key in fmap yields
NilFile == [Name |-> "", data |-> <<>>, state |-> "nil"]

\* the loop "for _, f := range r.File { fmap[f.Name] = f }": the last entry of
\* a name wins
Fmap(files) ==
    [n \in {files[i].Name : i \in DOMAIN files} |->
        files[CHOOSE i \in DOMAIN files :
                /\ files[i].Name = n
                /\ \A j \in DOMAIN files : j > i => files[j].Name # n]]

\* fmap[name]: the zero value, a nil pointer, for a missing key
Lookup(fmap, name) == IF name \in DOMAIN fmap THEN fmap[name] ELSE NilFile

\* the nil map returned next to an error
NilMap == <<>>

UnzipReturn(bmap, e) == [outcome |-> "return", bmap |-> bmap, err |-> e]

\* f.Open() on a nil *zip.File dereferences nil: a run-time panic, no return
UnzipPanic == [outcome |-> "panic", bmap |-> NilMap,
               err |-> Error("nil pointer dereference", "", "")]

UnzipOneWrongKey(f, k, bmap) ==
    IF f.state = "nil" THEN UnzipPanic
    ELSE IF f.state = "openerr"
    THEN UnzipReturn(NilMap, Error("unable to open binary for GOARCH", k, ""))
    ELSE IF f.state = "readerr"
    THEN UnzipReturn(NilMap, Error("unable to read binary for GOARCH", k, ""))
    ELSE UnzipReturn(bmap @@ ((IF k = "386" THEN "x86" ELSE k) :> f.data), NoError)

\* one iteration of the loop over goarchToWintunArch, for key k whose entry
\* lookup gave f
UnzipOne(f, k, bmap) ==
    IF f.state = "nil" THEN UnzipPanic
    ELSE IF f.state = "openerr"
    THEN UnzipReturn(NilMap, Error("unable to open binary for GOARCH", k, ""))
    ELSE IF f.state = "readerr"
    THEN UnzipReturn(NilMap, Error("unable to read binary for GOARCH", k, ""))
    ELSE UnzipReturn(bmap @@ (k :> f.data), NoError)

\* the loop "for k, v := range goarchToWintunArch", visiting the keys in the
\* order the map iteration happens to produce
RECURSIVE UnzipLoop(_, _, _)
UnzipLoop(fmap, order, bmap) ==
    IF order = <<>> THEN UnzipReturn(bmap, NoError)
    ELSE LET k == Head(order)
             r == UnzipOne(Lookup(fmap, EntryPath(goarchToWintunArch[k])), k, bmap)
         IN  IF r.outcome = "return" /\ r.err = NoError
             THEN UnzipLoop(fmap, Tail(order), r.bmap)
             ELSE r

\* the orders in which a range over goarchToWintunArch can visit its keys
MapOrders == {o \in [1..Cardinality(Archs) -> Archs] :
                 \A i, j \in DOMAIN o : i # j => o[i] # o[j]}

\* z is the downloaded byte buffer: z.valid iff zip.NewReader accepts it,
\* z.files its directory
unzipBinaries(z, order) ==
    IF ~z.valid
    THEN UnzipReturn(NilMap, Error("unable to create zip reader", "", "format"))
    ELSE UnzipLoop(Fmap(z.files), order, <<>>)

-----------------------------------------------------------------------------
(* byteize and generateFileForArch *)

Digit(d) == <<"0", "1", "2", "3", "4", "5", "6", "7", "8", "9">>[d + 1]

\* fmt.Sprintf("%d", n) for n >= 0
RECURSIVE Itoa(_)
Itoa(n) == IF n < 10 THEN <<Digit(n)>> ELSE Itoa(n \div 10) \o <<Digit(n % 10)>>

RECURSIVE byteizeNoComma(_)
byteizeNoComma(data) ==
    IF data = <<>> THEN <<>>
    ELSE Itoa(Head(data)) \o byteizeNoComma(Tail(data))

RECURSIVE byteize(_)
byteize(data) ==
    IF data = <<>> THEN <<>>
    ELSE Itoa(Head(data)) \o <<",">> \o byteize(Tail(data))

\* the escaping html/template applies to the result of a pipeline in text
\* context
RECURSIVE HTMLEscape(_)
HTMLEscape(s) ==
    IF s = <<>> THEN <<>>
    ELSE (CASE Head(s) = "&"  -> <<"&", "a", "m", "p", ";">>
            [] Head(s) = "<"  -> <<"&", "l", "t", ";">>
            [] Head(s) = ">"  -> <<"&", "g", "t", ";">>
            [] Head(s) = "\"" -> <<"&", "#", "3", "4", ";">>
            [] Head(s) = "'"  -> <<"&", "#", "3", "9", ";">>
            [] OTHER          -> <<Head(s)>>) \o HTMLEscape(Tail(s))

\* the template text before and after {{ byteize . }}
TplHead == "// Code generated by wintun-lib-embedded; DO NOT EDIT.\npackage wintunlib\n\nvar binary = []byte{ "

TplTail == " }\n\n// GetBinary returns the Wintun library according to GOARCH (compile time).\n// The library can be written to file as a dll file and thereafter it can be loaded.\nfunc GetBinary() []byte { return binary }\n\n"

\* tpl.Execute: the fixed text around the escaped result of byteize
TplExecute(binary) == <<TplHead>> \o HTMLEscape(byteize(binary)) \o <<TplTail>>

\* the same text as gofmt prints it
FmtHead == "// Code generated by wintun-lib-embedded; DO NOT EDIT.\npackage wintunlib\n\nvar binary = []byte{"

FmtTail == "}\n\n// GetBinary returns the Wintun library according to GOARCH (compile time).\n// The library can be written to file as a dll file and thereafter it can be loaded.\nfunc GetBinary() []byte { return binary }\n"

IsDigit(c) == c \in {"0", "1", "2", "3", "4", "5", "6", "7", "8", "9"}

\* the elements of a composite literal body "e1,e2,...,en," (trailing comma
\* optional), each a run of digits; <<"error">> if the body is not of that form
RECURSIVE LiteralElems(_, _)
LiteralElems(body, cur) ==
    IF body = <<>> THEN (IF cur = <<>> THEN <<>> ELSE <<cur>>)
    ELSE IF IsDigit(Head(body)) THEN LiteralElems(Tail(body), Append(cur, Head(body)))
    ELSE IF Head(body) = "," /\ cur # <<>>
    THEN LET rest == LiteralElems(Tail(body), <<>>)
         IN  IF rest = <<"error">> THEN rest ELSE <<cur>> \o rest
    ELSE <<"error">>

RECURSIVE JoinElems(_)
JoinElems(elems) ==
    IF elems = <<>> THEN <<>>
    ELSE IF Len(elems) = 1 THEN elems[1]
    ELSE elems[1] \o <<",", " ">> \o JoinElems(Tail(elems))

\* format.Source on the rendered template: the literal is printed on one line
\* with ", " between the elements and no trailing comma; an error if the
\* rendered text does not parse
FormatSource(src) ==
    LET elems == LiteralElems(SubSeq(src, 2, Len(src) - 1), <<>>)
    IN  IF elems = <<"error">>
        THEN [ok |-> FALSE, out |-> <<>>]
        ELSE [ok |-> TRUE, out |-> <<FmtHead>> \o JoinElems(elems) \o <<FmtTail>>]

\* no file of that name
NoFile == <<"ENOENT">>

\* what ioutil.WriteFile leaves behind when it fails: the file as it was (the
\* open failed) or truncated (the write failed after O_TRUNC)
FailedWrites(old) == {old, <<>>}

\* generateFileForArch(arch, binary) on the directory tree; io is what the
\* file system does: "ok", "mkdir" (MkdirAll fails) or "write" (WriteFile
\* fails, leaving left behind)
generateFileForArch(arch, binary, tree, io, left) ==
    LET out    == TplExecute(binary)
        fmtOut == FormatSource(out)
        fname  == FileName(arch)
    IN  IF io = "mkdir"
        THEN [err |-> Error("unable to create generate dir", "", "io"), tree |-> tree]
        ELSE IF ~fmtOut.ok
        THEN [err |-> Error("unable to format template output", "", "syntax"), tree |-> tree]
        ELSE IF io = "write"
        THEN [err |-> Error("unable to write output file", "", "io"),
              tree |-> [tree EXCEPT ![fname] = left]]
        ELSE [err |-> NoError, tree |-> [tree EXCEPT ![fname] = fmtOut.out]]

-----------------------------------------------------------------------------
(* Subprocesses and git *)

\* What running a command can give: the exit code of cmd.ProcessState (-1 if
\* the process did not start or was killed by a signal) and whether
\* CombinedOutput returned an error. A non-zero or missing exit code always
\* comes with an error.
RunOutcomes == {<<0, FALSE>>, <<0, TRUE>>, <<1, TRUE>>, <<-1, TRUE>>}

RunOk == <<0, FALSE>>

\* runWithOut: "" if the command counts as run, else the kind of error
runWithOut(o) ==
    LET code == o[1]
        e    == o[2]
    IN  IF code # -1 /\ code # 0 THEN "exit code"
        ELSE IF e THEN "exec"
        ELSE ""

\* a commit: its number in the history of the branch and its tree
Commit(id, tree) == [id |-> id, tree |-> tree]

Repo(w, i, h, t, r) == [wt |-> w, index |-> i, head |-> h, tags |-> t, remote |-> r]

\* the paths git status reports on, in the order it lists them
StatusPaths == <<FileName("386"), FileName("amd64"), FileName("arm"), FileName("arm64")>>

\* the line of "git status --porcelain=v1" for one path, <<>> if it is clean
StatusLine(repo, f) ==
    LET h == repo.head.tree[f]
        i == repo.index[f]
        w == repo.wt[f]
        X == IF i = h THEN " " ELSE IF h = NoFile THEN "A" ELSE IF i = NoFile THEN "D" ELSE "M"
        Y == IF w = i THEN " " ELSE IF w = NoFile THEN "D" ELSE "M"
    IN  IF i = h /\ w = i THEN <<>>
        ELSE IF i = NoFile /\ h = NoFile THEN <<"?", "?", " ", f, "\n">>
        ELSE <<X, Y, " ", f, "\n">>

RECURSIVE StatusFrom(_, _)
StatusFrom(repo, paths) ==
    IF paths = <<>> THEN <<>>
    ELSE StatusLine(repo, Head(paths)) \o StatusFrom(repo, Tail(paths))

\* the output of "git status --porcelain=v1"
GitStatus(repo) == StatusFrom(repo, StatusPaths)

\* git add .
GitAdd(repo) == [repo EXCEPT !.index = repo.wt]

\* git commit exits with code 1 when nothing is staged
NothingToCommit(repo) == repo.index = repo.head.tree

\* git commit -m ...
GitCommit(repo) == [repo EXCEPT !.head = Commit(repo.head.id + 1, repo.index)]

\* git tag -f -a tag -m ...: creates the tag or moves it to HEAD
GitTag(repo, tag) ==
    [repo EXCEPT !.tags = [n \in DOMAIN repo.tags \cup {tag} |->
                              IF n = tag THEN repo.head ELSE repo.tags[n]]]

\* git push --follow-tags: the branch, and the annotated tags the remote
\* lacks that point into the pushed history
GitPush(repo) ==
    LET missing == {n \in DOMAIN repo.tags :
                       n \notin DOMAIN repo.remote.tags /\ repo.tags[n].id <= repo.head.id}
    IN  [repo EXCEPT !.remote =
            [branch |-> repo.head,
             tags   |-> [n \in DOMAIN repo.remote.tags \cup missing |->
                            IF n \in missing THEN repo.tags[n] ELSE repo.remote.tags[n]]]]

\* git push origin tag
GitPushTag(repo, tag) ==
    [repo EXCEPT !.remote.tags =
        [n \in DOMAIN repo.remote.tags \cup {tag} |->
            IF n = tag THEN repo.tags[tag] ELSE repo.remote.tags[n]]]

\* the git commands, as they appear in gitlog
Cmd(op, arg) == [op |-> op, arg |-> arg]

-----------------------------------------------------------------------------
(* identifyLatestVersion *)

\* c, d: what running git clone and git describe gives; out: the output of
\* git describe; rm: whether the final os.RemoveAll succeeds.
\* dir tells whether .git-wintun exists afterwards.
identifyLatestVersion(c, d, out, rm) ==
    IF runWithOut(c) # ""
    THEN [val |-> <<>>, err |-> Error("unable to clone Wintun's git", "", runWithOut(c)),
          dir |-> FALSE, log |-> <<Cmd("clone", <<>>)>>]
    ELSE IF runWithOut(d) # ""
    THEN [val |-> <<>>,
          err |-> Error("failed to get version from git repo", "", runWithOut(d)),
          dir |-> TRUE, log |-> <<Cmd("clone", <<>>), Cmd("describe", <<>>)>>]
    ELSE IF ~rm
    THEN [val |-> <<>>,
          err |-> Error("failed to remove Wintun's git directory", "", "io"),
          dir |-> TRUE, log |-> <<Cmd("clone", <<>>), Cmd("describe", <<>>)>>]
    ELSE [val |-> TrimSpace(out), err |-> NoError,
          dir |-> FALSE, log |-> <<Cmd("clone", <<>>), Cmd("describe", <<>>)>>]

\* downloadUrl
downloadUrl(version) ==
    <<"https://www.wintun.net/builds/wintun-">> \o version \o <<".zip">>

-----------------------------------------------------------------------------
(* hasUncommittedChanges and pushToGit *)

hasUncommittedChangesAlways(o, repo) ==
    IF runWithOut(o) # ""
    THEN [val |-> FALSE, err |-> Error("unable to check git status", "", runWithOut(o))]
    ELSE [val |-> Len(TrimSpace(GitStatus(repo))) >= 0, err |-> NoError]

hasUncommittedChangesInverted(o, repo) ==
    IF runWithOut(o) # ""
    THEN [val |-> FALSE, err |-> Error("unable to check git status", "", runWithOut(o))]
    ELSE [val |-> Len(TrimSpace(GitStatus(repo))) = 0, err |-> NoError]

hasUncommittedChanges(o, repo) ==
    IF runWithOut(o) # ""
    THEN [val |-> FALSE, err |-> Error("unable to check git status", "", runWithOut(o))]
    ELSE [val |-> Len(TrimSpace(GitStatus(repo))) > 0, err |-> NoError]

TagNameRaw(v) == v

\* fmt.Sprintf("v%s", ver)
TagName(v) == <<"v">> \o v

PushResult(e, repo, log) == [err |-> e, repo |-> repo, log |-> log]

\* what running git commit gives: exit code 1 when nothing is staged
CommitOutcome(o, repo) == IF NothingToCommit(repo) THEN <<1, TRUE>> ELSE o

\* pushToGit(ver) on repo; outs[i] is what running the i-th command gives
pushToGit(v, repo, outs) ==
    LET tag     == TagName(v)
        add     == Cmd("add", <<>>)
        commit  == Cmd("commit", v)
        tagc    == Cmd("tag", tag)
        push    == Cmd("push", <<>>)
        pushtag == Cmd("pushtag", tag)
        r1 == GitAdd(repo)
        o2 == CommitOutcome(outs[2], r1)
        r2 == GitCommit(r1)
        r3 == GitTag(r2, tag)
        r4 == GitPush(r3)
        r5 == GitPushTag(r4, tag)
    IN  IF runWithOut(outs[1]) # ""
        THEN PushResult(Error("unable to git add", "", runWithOut(outs[1])),
                        repo, <<add>>)
        ELSE IF runWithOut(o2) # ""
        THEN PushResult(Error("unable to create commit", "", runWithOut(o2)),
                        r1, <<add, commit>>)
        ELSE IF runWithOut(outs[3]) # ""
        THEN PushResult(Error("unable to create git tag", "", runWithOut(outs[3])),
                        r2, <<add, commit, tagc>>)
        ELSE IF runWithOut(outs[4]) # ""
        THEN PushResult(Error("unable to push", "", runWithOut(outs[4])),
                        r3, <<add, commit, tagc, push>>)
        ELSE IF runWithOut(outs[5]) # ""
        THEN PushResult(Error("unable to push tag", "", runWithOut(outs[5])),
                        r4, <<add, commit, tagc, push, pushtag>>)
        ELSE PushResult(NoError, r5, <<add, commit, tagc, push, pushtag>>)

-----------------------------------------------------------------------------
(* Inputs: versions, archives, and the repository the pipeline runs in *)

VersionAlphabet == {"1", "2", ".", " "}

\* the raw versions normalizeVersion is applied to
RawVersions ==
    SeqsUpTo(VersionAlphabet, MaxVerLen)
        \cup {<<"1", ".", "2", ".", "3", ".", "4">>,
              <<" ", " ", "1", ".", "2", ".", "3", " ", " ">>,
              <<"\t", "\n">>}

\* what git describe --tags --abbrev=0 prints in the pipeline
DescribeOutputs == {<<>>, <<"0", ".", "8", "\n">>, <<"0", ".", "8", ".", "1", ".", "2", "\n">>}

ByteVals == {0, 10, 255}

Payloads == SeqsUpTo(ByteVals, MaxPayloadLen)

\* the first byte of each architecture's DLL tells the architectures apart
ArchMark(v) ==
    CASE v = "amd64" -> 64
      [] v = "arm"   -> 32
      [] v = "arm64" -> 164
      [] v = "x86"   -> 86

\* the order of the entries in the archive's directory
UpstreamOrder == <<"amd64", "arm", "arm64", "x86">>

\* how an architecture's entry appears in an archive
EntryKinds == {"ok", "empty", "dup", "absent", "openerr", "readerr"}

\* the directory entries of one architecture
Entries(v, kind, payload) ==
    LET dll == <<ArchMark(v)>> \o payload
    IN  CASE kind = "ok"      -> <<ZipFile(EntryPath(v), dll, "ok")>>
          [] kind = "empty"   -> <<ZipFile(EntryPath(v), <<>>, "ok")>>
          [] kind = "dup"     -> <<ZipFile(EntryPath(v), <<0>>, "ok"),
                                   ZipFile(EntryPath(v), dll, "ok")>>
          [] kind = "absent"  -> <<>>
          [] kind = "openerr" -> <<ZipFile(EntryPath(v), dll, "openerr")>>
          [] kind = "readerr" -> <<ZipFile(EntryPath(v), dll, "readerr")>>

RECURSIVE EntriesFrom(_, _, _)
EntriesFrom(names, layout, payload) ==
    IF names = <<>> THEN <<>>
    ELSE Entries(Head(names), layout[Head(names)], payload)
            \o EntriesFrom(Tail(names), layout, payload)

\* a zip archive: the licence file and the entries of the layout
Archive(layout, payload) ==
    [valid |-> TRUE,
     files |-> <<ZipFile("wintun/LICENSE.txt", <<76>>, "ok")>>
                  \o EntriesFrom(UpstreamOrder, layout, payload)]

\* a download that is no zip archive (an error page, a truncated body)
NotAZip == [valid |-> FALSE, files |-> <<>>]

\* main's zip before the download
NoZip == [valid |-> FALSE, files |-> <<"nil">>]

ExtractArchives ==
    {Archive(l, p) : l \in [UpstreamNames -> EntryKinds], p \in Payloads} \cup {NotAZip}

AllOk == [v \in UpstreamNames |-> "ok"]

\* the layouts of the releases the pipeline downloads: complete, or lacking
\* one architecture
PipelineLayouts == {AllOk} \cup {[AllOk EXCEPT ![v] = "absent"] : v \in UpstreamNames}

\* the payload of the DLLs of the release with raw version v
ReleasePayload(v) == IF v = <<"0", ".", "8">> THEN <<0>> ELSE <<255, 10>>

\* what the download of the release with raw version v can deliver
PipelineDownloads(v) ==
    {Archive(l, ReleasePayload(v)) : l \in PipelineLayouts} \cup {NotAZip}

EmptyTree == [f \in FileNames |-> NoFile]

\* a repository with one commit and no generated file, in step with its remote
FreshRepo ==
    Repo(EmptyTree, EmptyTree, Commit(0, EmptyTree), <<>>,
         [branch |-> Commit(0, EmptyTree), tags |-> <<>>])

\* prev before the first run
NoPrev == [pc |-> "none", stage |-> "none", written |-> EmptyTree, zip |-> NoZip,
           committed |-> FALSE]

\* TRUE iff git commit is in log and was not the command that failed
Committed(log) ==
    \E i \in DOMAIN log : log[i].op = "commit" /\ i < Len(log)

TheRepo == Repo(wt, index, head, tags, remote)

\* m[k] of a Go map: the zero value for a missing key
MapGet(m, k) == IF k \in DOMAIN m THEN m[k] ELSE <<>>

-----------------------------------------------------------------------------
(* main, stage by stage *)

\* the variables of a run as main finds them
RunStart ==
    /\ pc = "Resolve"
    /\ wtver = <<>>
    /\ ver = <<>>
    /\ zip = NoZip
    /\ bins = NilMap
    /\ generated = {}
    /\ hasChanges = "unset"
    /\ checks = 0
    /\ gitlog = <<>>
    /\ trace = <<>>
    /\ err = NoError
    /\ gets = <<>>
    /\ written = EmptyTree

Init ==
    /\ RunStart
    /\ gitDir \in BOOLEAN
    /\ wt = FreshRepo.wt
    /\ index = FreshRepo.index
    /\ head = FreshRepo.head
    /\ tags = FreshRepo.tags
    /\ remote = FreshRepo.remote
    /\ prev = NoPrev
    /\ run = 1

FatalRetries(e) ==
    /\ pc' = pc
    /\ err' = e

\* log.Fatalf: the run ends
Fatal(e) ==
    /\ pc' = "Failed"
    /\ err' = e

\* identifyLatestVersion and normalizeVersion (main, lines 189-198)
Resolve ==
    /\ pc = "Resolve"
    /\ \E c \in RunOutcomes, d \in RunOutcomes, out \in DescribeOutputs, rm \in BOOLEAN :
          LET r == identifyLatestVersion(c, d, out, rm)
              n == normalizeVersion(r.val)
          IN  /\ trace' = Append(trace, "Resolve")
              /\ gitlog' = gitlog \o r.log
              /\ gitDir' = r.dir
              /\ IF r.err # NoError
                 THEN Fatal(r.err) /\ UNCHANGED <<wtver, ver>>
                 ELSE IF n.err # NoError
                 THEN Fatal(n.err) /\ wtver' = r.val /\ UNCHANGED ver
                 ELSE /\ wtver' = r.val
                      /\ ver' = n.val
                      /\ pc' = "Fetch"
                      /\ UNCHANGED err
    /\ UNCHANGED <<zip, bins, generated, hasChanges, checks, gets, written,
                   wt, index, head, tags, remote, prev, run>>

\* http.Get and ioutil.ReadAll (main, lines 200-211)
Fetch ==
    /\ pc = "Fetch"
    /\ trace' = Append(trace, "Fetch")
    /\ gets' = Append(gets, downloadUrl(wtver))
    /\ \/ Fatal(Error("downloading Wintun failed", "", "transport")) /\ UNCHANGED zip
       \/ Fatal(Error("unable to read response", "", "transport")) /\ UNCHANGED zip
       \/ \E z \in PipelineDownloads(wtver) :
             /\ zip' = z
             /\ pc' = "Extract"
             /\ UNCHANGED err
    /\ UNCHANGED <<wtver, ver, bins, generated, hasChanges, checks, gitlog, written,
                   gitDir, wt, index, head, tags, remote, prev, run>>

ExtractIgnoresError ==
    /\ pc = "Extract"
    /\ trace' = Append(trace, "Extract")
    /\ \E order \in MapOrders :
          LET r == unzipBinaries(zip, order)
          IN  /\ bins' = r.bmap
              /\ pc' = "Generate"
              /\ err' = r.err
    /\ UNCHANGED <<wtver, ver, zip, generated, hasChanges, checks, gitlog, gets, written,
                   gitDir, wt, index, head, tags, remote, prev, run>>

\* unzipBinaries (main, lines 212-216)
Extract ==
    /\ pc = "Extract"
    /\ trace' = Append(trace, "Extract")
    /\ \E order \in MapOrders :
          LET r == unzipBinaries(zip, order)
          IN  /\ bins' = r.bmap
              /\ IF r.outcome = "panic"
                 THEN pc' = "Panicked" /\ err' = r.err
                 ELSE IF r.err # NoError
                 THEN Fatal(r.err)
                 ELSE pc' = "Generate" /\ UNCHANGED err
    /\ UNCHANGED <<wtver, ver, zip, generated, hasChanges, checks, gitlog, gets, written,
                   gitDir, wt, index, head, tags, remote, prev, run>>

\* one iteration of the loop over goarchToWintunArch (main, lines 218-224)
Generate(k) ==
    /\ pc = "Generate"
    /\ k \in Archs \ generated
    /\ trace' = Append(trace, "Generate")
    /\ \E io \in {"ok", "mkdir", "write"} :
       \E left \in (IF io = "write" THEN FailedWrites(wt[FileName(k)]) ELSE {wt[FileName(k)]}) :
          LET r == generateFileForArch(k, MapGet(bins, k), wt, io, left)
          IN  /\ wt' = r.tree
              /\ written' = IF r.err # NoError /\ r.tree = wt THEN written
                             ELSE [written EXCEPT ![FileName(k)] = r.tree[FileName(k)]]
              /\ IF r.err # NoError
                 THEN Fatal(r.err) /\ UNCHANGED generated
                 ELSE /\ generated' = generated \cup {k}
                      /\ pc' = IF generated' = Archs THEN "DetectChanges" ELSE "Generate"
                      /\ UNCHANGED err
    /\ UNCHANGED <<wtver, ver, zip, bins, hasChanges, checks, gitlog, gets,
                   gitDir, index, head, tags, remote, prev, run>>

DetectChangesAlwaysPublish ==
    /\ pc = "DetectChanges"
    /\ checks' = checks + 1
    /\ gitlog' = Append(gitlog, Cmd("status", <<>>))
    /\ \E o \in RunOutcomes :
          LET r == hasUncommittedChanges(o, TheRepo)
          IN  IF r.err # NoError
              THEN /\ Fatal(r.err)
                   /\ hasChanges' = "error"
                   /\ trace' = Append(trace, "DetectChanges")
              ELSE /\ hasChanges' = IF r.val THEN "true" ELSE "false"
                   /\ pc' = "Publish"
                   /\ trace' = Append(trace, "DetectChanges")
                   /\ UNCHANGED err
    /\ UNCHANGED <<wtver, ver, zip, bins, generated, gets, written,
                   gitDir, wt, index, head, tags, remote, prev, run>>

\* hasUncommittedChanges and the branch on its result (main, lines 226-231);
\* with a clean tree main goes straight to "done!"
DetectChanges ==
    /\ pc = "DetectChanges"
    /\ checks' = checks + 1
    /\ gitlog' = Append(gitlog, Cmd("status", <<>>))
    /\ \E o \in RunOutcomes :
          LET r == hasUncommittedChanges(o, TheRepo)
          IN  IF r.err # NoError
              THEN /\ Fatal(r.err)
                   /\ hasChanges' = "error"
                   /\ trace' = Append(trace, "DetectChanges")
              ELSE IF r.val
              THEN /\ hasChanges' = "true"
                   /\ pc' = "Publish"
                   /\ trace' = Append(trace, "DetectChanges")
                   /\ UNCHANGED err
              ELSE /\ hasChanges' = "false"
                   /\ pc' = "Done"
                   /\ trace' = trace \o <<"DetectChanges", "Skip", "Done">>
                   /\ UNCHANGED err
    /\ UNCHANGED <<wtver, ver, zip, bins, generated, gets, written,
                   gitDir, wt, index, head, tags, remote, prev, run>>

\* what running the five commands of pushToGit can give: all run, or the
\* k-th is the first that does not
PublishOutcomes ==
    {[i \in 1..5 |-> RunOk]}
        \cup {[i \in 1..5 |-> IF i = k THEN o ELSE RunOk] :
                 k \in 1..5, o \in RunOutcomes \ {RunOk}}

\* pushToGit (main, lines 231-238)
Publish ==
    /\ pc = "Publish"
    /\ \E outs \in PublishOutcomes :
          LET r == pushToGit(ver, TheRepo, outs)
          IN  /\ gitlog' = gitlog \o r.log
              /\ wt' = r.repo.wt
              /\ index' = r.repo.index
              /\ head' = r.repo.head
              /\ tags' = r.repo.tags
              /\ remote' = r.repo.remote
              /\ IF r.err # NoError
                 THEN Fatal(r.err) /\ trace' = Append(trace, "Publish")
                 ELSE /\ pc' = "Done"
                      /\ trace' = trace \o <<"Publish", "Done">>
                      /\ UNCHANGED err
    /\ UNCHANGED <<wtver, ver, zip, bins, generated, hasChanges, checks, gets, written,
                   gitDir, prev, run>>

Ended == pc \in {"Done", "Failed", "Panicked"}

\* the pipeline is started again, in the repository as the last run left it
StartRun ==
    /\ Ended
    /\ run <= MaxReruns
    /\ run' = run + 1
    /\ prev' = [pc |-> pc, stage |-> trace[Len(trace)], written |-> written, zip |-> zip,
                committed |-> Committed(gitlog)]
    /\ pc' = "Resolve"
    /\ wtver' = <<>>
    /\ ver' = <<>>
    /\ zip' = NoZip
    /\ bins' = NilMap
    /\ generated' = {}
    /\ hasChanges' = "unset"
    /\ checks' = 0
    /\ gitlog' = <<>>
    /\ trace' = <<>>
    /\ err' = NoError
    /\ gets' = <<>>
    /\ written' = EmptyTree
    /\ UNCHANGED <<gitDir, wt, index, head, tags, remote>>

Next ==
    \/ Resolve
    \/ Fetch
    \/ Extract
    \/ \E k \in Archs : Generate(k)
    \/ DetectChanges
    \/ Publish
    \/ StartRun

Spec == Init /\ [][Next]_vars

-----------------------------------------------------------------------------
(* normalizeVersion on its own, on every raw version of RawVersions *)

InitNorm ==
    /\ pc = "Normalize"
    /\ wtver \in RawVersions
    /\ ver = <<>>
    /\ zip = NoZip
    /\ bins = NilMap
    /\ generated = {}
    /\ hasChanges = "unset"
    /\ checks = 0
    /\ gitlog = <<>>
    /\ trace = <<>>
    /\ err = NoError
    /\ gets = <<>>
    /\ written = EmptyTree
    /\ gitDir = FALSE
    /\ wt = FreshRepo.wt
    /\ index = FreshRepo.index
    /\ head = FreshRepo.head
    /\ tags = FreshRepo.tags
    /\ remote = FreshRepo.remote
    /\ prev = NoPrev
    /\ run = 1

\* ver, err := normalizeVersion(wtver)
Normalize ==
    /\ pc = "Normalize"
    /\ ver' = normalizeVersion(wtver).val
    /\ err' = normalizeVersion(wtver).err
    /\ pc' = "Normalized"
    /\ UNCHANGED <<wtver, zip, bins, generated, hasChanges, checks, gitlog, trace, gets,
                   written, gitDir, wt, index, head, tags, remote, prev, run>>

NextNorm == Normalize

SpecNorm == InitNorm /\ [][NextNorm]_vars

-----------------------------------------------------------------------------
(* Extraction and generation on every archive of ExtractArchives: main from *)
(* the call of unzipBinaries to the end of the generation loop              *)

InitExtract ==
    /\ pc = "Extract"
    /\ wtver = <<"0", ".", "8">>
    /\ ver = normalizeVersion(wtver).val
    /\ zip \in ExtractArchives
    /\ bins = NilMap
    /\ generated = {}
    /\ hasChanges = "unset"
    /\ checks = 0
    /\ gitlog = <<Cmd("clone", <<>>), Cmd("describe", <<>>)>>
    /\ trace = <<"Resolve", "Fetch">>
    /\ err = NoError
    /\ gets = <<downloadUrl(wtver)>>
    /\ written = EmptyTree
    /\ gitDir = FALSE
    /\ wt = FreshRepo.wt
    /\ index = FreshRepo.index
    /\ head = FreshRepo.head
    /\ tags = FreshRepo.tags
    /\ remote = FreshRepo.remote
    /\ prev = NoPrev
    /\ run = 1

NextExtract ==
    \/ Extract
    \/ \E k \in Archs : Generate(k)

SpecExtract == InitExtract /\ [][NextExtract]_vars

-----------------------------------------------------------------------------
(* Vocabulary of the properties *)

Last(q) == q[Len(q)]

Range(q) == {q[i] : i \in DOMAIN q}

IsPrefix(p, q) == Len(p) <= Len(q) /\ SubSeq(q, 1, Len(p)) = p

\* the commands of gitlog with an operation of ops, in order
RECURSIVE OnlyOps(_, _)
OnlyOps(log, ops) ==
    IF log = <<>> THEN <<>>
    ELSE IF Head(log).op \in ops THEN <<Head(log)>> \o OnlyOps(Tail(log), ops)
    ELSE OnlyOps(Tail(log), ops)

MutatingOps == {"add", "commit", "tag", "push", "pushtag"}

PublisherOps == MutatingOps \cup {"status"}

\* the run has called unzipBinaries
Extracted == "Extract" \in Range(trace)

\* the run ended in the stage st without completing it
FailedIn(st) == pc \in {"Failed", "Panicked"} /\ Last(trace) = st

\* the archive z has an entry named as the upstream architecture v requires
HasEntry(z, v) == \E i \in DOMAIN z.files : z.files[i].Name = EntryPath(v)

\* the entry of that name that a reader of z finds: the last one
EntryOf(z, v) ==
    z.files[CHOOSE i \in DOMAIN z.files :
               /\ z.files[i].Name = EntryPath(v)
               /\ \A j \in DOMAIN z.files : z.files[j].Name = EntryPath(v) => j <= i]

\* the upstream name of the architecture key k
UpstreamOf(k) == IF k = "386" THEN "x86" ELSE k

\* z's entry for key k cannot be opened or read
Unresolvable(z, k) ==
    ~HasEntry(z, UpstreamOf(k)) \/ EntryOf(z, UpstreamOf(k)).state # "ok"

AllSpace(s) == \A i \in DOMAIN s : s[i] \in {" ", "\t", "\n"}

\* s without its leading and trailing white space
Stripped(s) ==
    LET keep == {i \in DOMAIN s : s[i] \notin {" ", "\t", "\n"}}
    IN  IF keep = {} THEN <<>>
        ELSE SubSeq(s, CHOOSE i \in keep : \A j \in keep : i <= j,
                       CHOOSE i \in keep : \A j \in keep : j <= i)

\* the parts of s between its dots
RECURSIVE DotParts(_, _)
DotParts(s, cur) ==
    IF s = <<>> THEN <<cur>>
    ELSE IF Head(s) = "." THEN <<cur>> \o DotParts(Tail(s), <<>>)
    ELSE DotParts(Tail(s), Append(cur, Head(s)))

RECURSIVE JoinWith(_, _)
JoinWith(parts, sep) ==
    IF Len(parts) = 1 THEN parts[1]
    ELSE parts[1] \o <<sep>> \o JoinWith(Tail(parts), sep)

CountOf(s, c) == Cardinality({i \in DOMAIN s : s[i] = c})

\* the three components the claim describes for the raw version raw
ExpectedVersion(raw) ==
    LET parts == DotParts(Stripped(raw), <<>>)
        c1 == parts[1]
        c2 == IF Len(parts) >= 2 THEN parts[2] ELSE <<"0">>
        c3 == IF Len(parts) >= 3 THEN JoinWith(SubSeq(parts, 3, Len(parts)), "_")
              ELSE <<"0">>
    IN  c1 \o <<".">> \o c2 \o <<".">> \o c3

DigitValue(c) == CHOOSE d \in 0..9 : Digit(d) = c

\* the numbers of a literal "n1, n2, ..., nk" read from left to right
RECURSIVE DecodeElems(_, _, _)
DecodeElems(chars, n, open) ==
    IF chars = <<>> THEN (IF open THEN <<n>> ELSE <<>>)
    ELSE IF Head(chars) \in {",", " "}
    THEN (IF open THEN <<n>> ELSE <<>>) \o DecodeElems(Tail(chars), 0, FALSE)
    ELSE DecodeElems(Tail(chars), 10 * n + DigitValue(Head(chars)), TRUE)

\* the bytes of the literal between the braces of "var binary = []byte{...}"
\* in a generated file
DecodeFile(file) == DecodeElems(SubSeq(file, 2, Len(file) - 1), 0, FALSE)

\* a generated file: the fixed text around a literal
IsGeneratedFile(file) ==
    /\ Len(file) >= 2
    /\ file[1] = FmtHead
    /\ file[Len(file)] = FmtTail

-----------------------------------------------------------------------------
(* C1 *)

\* C1: no git add, commit, tag or push is executed unless
\* hasUncommittedChanges returned true; the check is made at most once in a
\* run, exactly once in a run that reaches the publisher or "done!", and only
\* after generateFileForArch has succeeded for every key of
\* goarchToWintunArch; when it returns false the run is Done with no
\* mutating git operation.
C1_PublishOnlyWhenChanged ==
    /\ (OnlyOps(gitlog, MutatingOps) # <<>> => hasChanges = "true" /\ checks = 1)
    /\ checks <= 1
    /\ Len(OnlyOps(gitlog, {"status"})) = checks
    /\ (checks = 1 => generated = Archs)
    /\ (pc \in {"Publish", "Done"} => checks = 1)
    /\ (hasChanges = "false" => pc = "Done" /\ OnlyOps(gitlog, MutatingOps) = <<>>)

C1_Witness_Publish ==
    /\ hasChanges = "true"
    /\ pc = "Done"
    /\ Len(OnlyOps(gitlog, MutatingOps)) = 5

-----------------------------------------------------------------------------
(* C2 *)

\* the entries of the trace that are the stage st
OnlyStages(tr, st) == SelectSeq(tr, LAMBDA x : x = st)

StagesPublish == <<"Resolve", "Fetch", "Extract", "Generate", "Generate", "Generate",
                   "Generate", "DetectChanges", "Publish", "Done">>

StagesSkip == <<"Resolve", "Fetch", "Extract", "Generate", "Generate", "Generate",
                "Generate", "DetectChanges", "Skip", "Done">>

C2_StageOrder ==
    /\ IsPrefix(trace, StagesPublish) \/ IsPrefix(trace, StagesSkip)
    /\ Len(OnlyOps(gitlog, {"clone"})) <= 1
    /\ Len(gets) <= 1
    /\ Cardinality(generated) + (IF FailedIn("Generate") THEN 1 ELSE 0)
          = Len(OnlyStages(trace, "Generate"))
    /\ (pc \in {"DetectChanges", "Publish", "Done"} => generated = Archs)
    /\ (pc = "Done" <=> (trace # <<>> /\ Last(trace) = "Done"))
    /\ (pc \in {"Failed", "Panicked"} => err # NoError)

\* after a failure nothing more happens in the run: the next step, if any, is
\* the start of another run
C2_FailureIsTerminal ==
    pc \in {"Failed", "Panicked"} =>
        \/ run' = run + 1
        \/ UNCHANGED vars

\* C2: the stages of a run are entered in the order Resolve, Fetch, Extract,
\* Generate (once per key of goarchToWintunArch), DetectChanges, then Publish
\* or Skip, then Done, none twice, with at most one git clone and one HTTP GET;
\* after a failure the run performs nothing more and is never Done.
C2_Stages == [](C2_StageOrder) /\ [][C2_FailureIsTerminal]_vars

C2_Witness ==
    /\ FailedIn("Generate")
    /\ Len(trace) = 6
    /\ run = 2

-----------------------------------------------------------------------------
(* C3 *)

MissingEntry(z) == z.valid /\ \E v \in UpstreamNames : ~HasEntry(z, v)

\* C3: when the archive lacks the entry of some configured architecture,
\* the run ends in extraction, writes no generated file for any key, and
\* executes no git command from the extraction on: the only git commands of
\* the run are the clone and describe that found the version.
C3_AllOrNothing ==
    Extracted /\ MissingEntry(zip) =>
        /\ FailedIn("Extract")
        /\ generated = {}
        /\ written = EmptyTree
        /\ OnlyOps(gitlog, PublisherOps) = <<>>
        /\ gitlog = <<Cmd("clone", <<>>), Cmd("describe", <<>>)>>

C3_Witness ==
    /\ Extracted
    /\ MissingEntry(zip)
    /\ HasEntry(zip, "amd64")
    /\ ~HasEntry(zip, "x86")
    /\ run = 2
    /\ wt # EmptyTree

-----------------------------------------------------------------------------
(* C4 *)

\* C4 (the claim as stated): whenever the entry of some configured
\* architecture cannot be opened or read, or is absent, unzipBinaries returns
\* an error naming a local architecture key whose entry is unresolvable,
\* with a nil map, and does not panic.
C4_ErrorNamesKey ==
    Extracted /\ zip.valid /\ (\E k \in Archs : Unresolvable(zip, k)) =>
        /\ pc = "Failed"
        /\ err.arch \in Archs
        /\ Unresolvable(zip, err.arch)
        /\ bins = NilMap

-----------------------------------------------------------------------------
(* C5 *)

\* the commands of pushToGit for the normalized version v
PublishCmds(v) ==
    <<Cmd("add", <<>>), Cmd("commit", v), Cmd("tag", <<"v">> \o v),
      Cmd("push", <<>>), Cmd("pushtag", <<"v">> \o v)>>

\* the message of the error pushToGit returns when the command fails
PublishErrorOf(op) ==
    CASE op = "add"     -> "unable to git add"
      [] op = "commit"  -> "unable to create commit"
      [] op = "tag"     -> "unable to create git tag"
      [] op = "push"    -> "unable to push"
      [] op = "pushtag" -> "unable to push tag"

\* the effects of the first n commands of pushToGit are in place
EffectsOf(n) ==
    /\ (n >= 1 => index = wt)
    /\ (n >= 2 => head.tree = wt /\ head.id >= 1)
    /\ (n >= 3 => TagName(ver) \in DOMAIN tags /\ tags[TagName(ver)] = head)
    /\ (n >= 4 => remote.branch = head)
    /\ (n >= 5 => TagName(ver) \in DOMAIN remote.tags /\ remote.tags[TagName(ver)] = head)

\* C5: pushToGit runs add, commit, tag v<ver>, push --follow-tags, push origin
\* v<ver> in that order; when the k-th fails it returns the error that names
\* it, no later command is run and the effects of the earlier ones stay; when
\* all succeed there were exactly two pushes, the branch push first.
C5_PublishSequence ==
    LET pl == OnlyOps(gitlog, MutatingOps)
    IN  /\ IsPrefix(pl, PublishCmds(ver))
        /\ (pl # <<>> /\ wtver = <<"0", ".", "8">> =>
                PublishCmds(ver)[3].arg = <<"v", "0", ".", "8", ".", "0">>)
        /\ (FailedIn("Publish") =>
                /\ pl # <<>>
                /\ err.msg = PublishErrorOf(Last(pl).op)
                /\ EffectsOf(Len(pl) - 1))
        /\ (pc = "Done" /\ hasChanges = "true" =>
                /\ pl = PublishCmds(ver)
                /\ OnlyOps(gitlog, {"push", "pushtag"})
                      = <<Cmd("push", <<>>), Cmd("pushtag", <<"v">> \o ver)>>
                /\ EffectsOf(5))

C5_Witness ==
    /\ FailedIn("Publish")
    /\ Len(OnlyOps(gitlog, MutatingOps)) = 4
    /\ err.msg = "unable to push"
    /\ TagName(ver) \in DOMAIN tags
    /\ remote.branch # head

-----------------------------------------------------------------------------
(* C6 *)

\* hasUncommittedChanges returned a result in this run
Checked == hasChanges \in {"true", "false"}

\* the run before this one was published, skipped, or aborted while
\* generating or publishing
PrevRanGeneration == prev.stage \in {"Done", "Generate", "Publish"}

\* the run before this one left its output committed: it skipped, or its
\* git commit succeeded
PrevLeftOutputCommitted == prev.pc = "Done" \/ prev.committed

-----------------------------------------------------------------------------
(* C7 *)

\* C7: the file written for key k holds a literal whose elements, decoded in
\* order, are the bytes extracted for k, and those are the content of the
\* archive entry of k's own upstream architecture name.
C7_LiteralRoundTrip ==
    \A k \in generated :
        /\ IsGeneratedFile(wt[FileName(k)])
        /\ DecodeFile(wt[FileName(k)]) = bins[k]
        /\ HasEntry(zip, UpstreamOf(k))
        /\ bins[k] = EntryOf(zip, UpstreamOf(k)).data
        /\ \A i \in DOMAIN bins[k] : bins[k][i] \in 0..255

C7_Witness ==
    /\ generated = Archs
    /\ Len(bins["386"]) = 3
    /\ bins["386"][1] = 86
    /\ bins["386"][2] # bins["386"][3]
    /\ bins["amd64"] = <<>>
    /\ bins["arm"] # bins["arm64"]

-----------------------------------------------------------------------------
(* C8 *)

\* C8: normalizeVersion fails exactly on an empty or white-space-only raw
\* version; otherwise its result has exactly two dots and is the first two
\* dot-delimited parts of the trimmed input, padded with "0", followed by the
\* rest with its dots replaced by underscores.
C8_NormalizedForm ==
    pc = "Normalized" =>
        /\ (err # NoError <=> AllSpace(wtver))
        /\ (~AllSpace(wtver) =>
                /\ CountOf(ver, ".") = 2
                /\ Len(DotParts(ver, <<>>)) = 3
                /\ ver = ExpectedVersion(wtver))
        /\ (wtver = <<"1", ".", "2">> => ver = <<"1", ".", "2", ".", "0">>)
        /\ (wtver = <<"1", ".", "2", ".", "3", ".", "4">>
                => ver = <<"1", ".", "2", ".", "3", "_", "4">>)
        /\ (wtver = <<" ", " ", "1", ".", "2", ".", "3", " ", " ">>
                => ver = <<"1", ".", "2", ".", "3">>)

C8_Witness ==
    /\ pc = "Normalized"
    /\ wtver = <<"1", ".", "2", ".", "3", ".", "4">>
    /\ ver = <<"1", ".", "2", ".", "3", "_", "4">>
    /\ err = NoError

-----------------------------------------------------------------------------
(* C9 *)

\* the run has called unzipBinaries and it returned without an error
ExtractSucceeded == Extracted /\ ~FailedIn("Extract")

HasAllEntries(z) == z.valid /\ \A v \in UpstreamNames : HasEntry(z, v)

AllReadable(z) == z.valid /\ \A k \in Archs : ~Unresolvable(z, k)

\* C9 (the claim as stated): for an archive with the required entry of every
\* configured architecture, unzipBinaries succeeds and returns one blob per
\* key of goarchToWintunArch, none of them empty.
C9_OneNonEmptyBlobPerKey ==
    Extracted /\ HasAllEntries(zip) =>
        /\ ExtractSucceeded
        /\ DOMAIN bins = Archs
        /\ \A k \in Archs : bins[k] # <<>>

\* C9 (amended): for an archive whose required entries can all be opened and
\* read, unzipBinaries succeeds and returns one blob per key of
\* goarchToWintunArch, each non-empty unless its entry has no content.
C9_OneBlobPerKey ==
    Extracted /\ AllReadable(zip) =>
        /\ ExtractSucceeded
        /\ DOMAIN bins = Archs
        /\ \A k \in Archs :
              bins[k] = <<>> <=> EntryOf(zip, UpstreamOf(k)).data = <<>>

C9_Witness ==
    /\ Extracted
    /\ AllReadable(zip)
    /\ pc = "Generate"
    /\ bins["386"] = <<>>
    /\ bins["arm"] # <<>>

-----------------------------------------------------------------------------
(* C10 *)

\* the run before this one committed and then failed in a later command of
\* pushToGit, and this run has downloaded the same archive
AfterUnpublishedCommit ==
    /\ prev.committed
    /\ prev.pc = "Failed"
    /\ prev.stage = "Publish"
    /\ zip = prev.zip

\* C10: a run that follows one whose commit succeeded and whose tag or push
\* failed, with the same upstream content, executes no tag and no push (no
\* mutating git command at all); its check finds the tree clean and the run
\* is Done by the Skip branch.
C10_NoRetryOfFailedPublish ==
    AfterUnpublishedCommit =>
        /\ OnlyOps(gitlog, MutatingOps) = <<>>
        /\ pc # "Publish"
        /\ (Checked => /\ hasChanges = "false"
                       /\ pc = "Done"
                       /\ Last(trace) = "Done"
                       /\ "Skip" \in Range(trace))

C10_Witness ==
    /\ AfterUnpublishedCommit
    /\ pc = "Done"
    /\ "Skip" \in Range(trace)
    /\ remote.branch # head

====
